---- MODULE Spec2Model ----
(***************************************************************************)
(* A model of the retrieval pipeline of pdf-ai-backend:                    *)
(*   api/services/pdf_extract.py  chunk_text                               *)
(*   api/services/rag_store.py    upsert_doc_chunks, _tokenize, query_doc  *)
(*   api/services/rag_answer.py   build_context, _important_tokens,        *)
(*                                _make_context, _sources,                 *)
(*                                answer_from_context                      *)
(* A Python str is a sequence of one-character strings.  The character     *)
(* "NUL" stands for "\x00".                                                *)
(***************************************************************************)
EXTENDS Integers, Sequences, FiniteSets, TLC

VARIABLES
    ch_input, ch_size, ch_overlap, ch_text, ch_start, ch_chunks, ch_pc,
    fs_exists, fs_content,
    w_pc, w_arg, w_pos, w_last, w_prev,
    r_pc, r_obs, r_allowed,
    q_stored, q_question, q_topk, q_result, q_items, q_pc,
    m_items, m_question, m_max, m_context, m_pc,
    a_items, a_question, a_context, a_sources, a_answer, a_chats, a_outcome,
    a_raised, a_pc

chunkVars == <<ch_input, ch_size, ch_overlap, ch_text, ch_start, ch_chunks, ch_pc>>

storeVars == <<fs_exists, fs_content, w_pc, w_arg, w_pos, w_last, w_prev,
               r_pc, r_obs, r_allowed>>

queryVars == <<q_stored, q_question, q_topk, q_result, q_items, q_pc>>

contextVars == <<m_items, m_question, m_max, m_context, m_pc>>

answerVars == <<a_items, a_question, a_context, a_sources, a_answer, a_chats,
                a_outcome, a_raised, a_pc>>

vars == <<chunkVars, storeVars, queryVars, contextVars, answerVars>>

nonChunkVars == <<storeVars, queryVars, contextVars, answerVars>>

nonStoreVars == <<chunkVars, queryVars, contextVars, answerVars>>

nonQueryVars == <<chunkVars, storeVars, contextVars, answerVars>>

nonContextVars == <<chunkVars, storeVars, queryVars, answerVars>>

nonAnswerVars == <<chunkVars, storeVars, queryVars, contextVars>>

(***************************************************************************)
(* Bounds of the model.                                                    *)
(***************************************************************************)
MaxTextLen == 4
MaxChunkSize == 3
MaxOverlap == 3
MaxUpsertChunks == 2
MaxStored == 3
MaxItems == 7
MaxBudget == 30
MaxCandidates == 5

(***************************************************************************)
(* Strings.                                                                *)
(***************************************************************************)
NUL == "NUL"

\* The characters str.strip() removes (those of them the model's texts use).
Whitespace == {" ", "\n", "\t"}

Min(a, b) == IF a <= b THEN a ELSE b

Max(a, b) == IF a >= b THEN a ELSE b

\* s[lo:hi] of Python for 0 <= lo, hi <= len(s).
Slice(s, lo, hi) == SubSeq(s, lo + 1, hi)

\* A function on 1..n as a sequence (evaluated once, element by element).
AsString(f) == SubSeq(f, 1, Len(f))

\* str.replace("\x00", " ")
ReplaceNul(s) == AsString([i \in 1..Len(s) |-> IF s[i] = NUL THEN " " ELSE s[i]])

\* A "strip" that forgets to trim.
StripNothing(s) == s

\* str.strip()
Strip(s) ==
    IF \A i \in 1..Len(s) : s[i] \in Whitespace THEN <<>>
    ELSE LET lo == CHOOSE i \in 1..Len(s) :
                       /\ s[i] \notin Whitespace
                       /\ \A j \in 1..(i - 1) : s[j] \in Whitespace
             hi == CHOOSE i \in 1..Len(s) :
                       /\ s[i] \notin Whitespace
                       /\ \A j \in (i + 1)..Len(s) : s[j] \in Whitespace
         IN  SubSeq(s, lo, hi)

\* All strings over the characters cs of length at most n.
StringsUpTo(cs, n) == UNION {[1..k -> cs] : k \in 0..n}

(***************************************************************************)
(* chunk_text(text, chunk_size, overlap): pdf_extract.py                   *)
(***************************************************************************)
ChunkChars == {"a", " ", NUL}

ChunkInit ==
    /\ ch_input \in StringsUpTo(ChunkChars, MaxTextLen)
    /\ ch_size \in 1..MaxChunkSize
    /\ ch_overlap \in 0..MaxOverlap
    /\ ch_text = <<>>
    /\ ch_start = 0
    /\ ch_chunks = <<>>
    /\ ch_pc = "call"

\* Lines 34-40: normalise, return [] for an empty text, else enter the loop.
ChunkEnter ==
    /\ ch_pc = "call"
    /\ ch_text' = Strip(ReplaceNul(ch_input))
    /\ ch_start' = 0
    /\ ch_chunks' = <<>>
    /\ ch_pc' = IF ch_text' = <<>> THEN "done" ELSE "loop"
    /\ UNCHANGED <<ch_input, ch_size, ch_overlap>>
    /\ UNCHANGED nonChunkVars

\* Lines 42-51: one pass of the while loop.  A run that does not advance
\* appends without end; the model stops it once it holds more chunks than
\* the text has characters, which no advancing run does.
ChunkIterate ==
    /\ ch_pc = "loop"
    /\ Len(ch_chunks) <= Len(ch_text)
    /\ LET n == Len(ch_text)
           end == Min(ch_start + ch_size, n)
           chunk == Strip(Slice(ch_text, ch_start, end))
           appended == IF chunk # <<>> THEN Append(ch_chunks, chunk) ELSE ch_chunks
           next == Max(0, end - ch_overlap)
       IN  /\ ch_chunks' = appended
           /\ IF end = n
              THEN /\ ch_pc' = "done"
                   /\ ch_start' = ch_start
              ELSE /\ ch_start' = next
                   /\ ch_pc' = IF next < n THEN "loop" ELSE "done"
    /\ UNCHANGED <<ch_input, ch_size, ch_overlap, ch_text>>
    /\ UNCHANGED nonChunkVars

ChunkNext == ChunkEnter \/ ChunkIterate

\* chunk_text is not running.
ChunkIdle ==
    /\ ch_input = <<>>
    /\ ch_size = 1
    /\ ch_overlap = 0
    /\ ch_text = <<>>
    /\ ch_start = 0
    /\ ch_chunks = <<>>
    /\ ch_pc = "idle"

(***************************************************************************)
(* Claims about chunk_text.                                                *)
(***************************************************************************)

\* C2: whenever the loop of chunk_text continues, the next window start is
\* strictly greater than the previous one (so the loop terminates), for
\* every chunk_size >= 1 and overlap >= 0, overlap >= chunk_size included.
C2_StartAdvances ==
    [][(ch_pc = "loop" /\ ch_pc' = "loop") => ch_start' > ch_start]_vars

IsBlank(s) == \A i \in 1..Len(s) : s[i] \in Whitespace \cup {NUL}

\* C8: every chunk chunk_text returns is non-empty, has no leading or
\* trailing whitespace and is at most chunk_size long; an empty, null-only
\* or whitespace-only text yields the empty sequence.
C8_ChunksTrimmedAndBounded ==
    /\ \A i \in 1..Len(ch_chunks) :
          /\ ch_chunks[i] # <<>>
          /\ ch_chunks[i][1] \notin Whitespace
          /\ ch_chunks[i][Len(ch_chunks[i])] \notin Whitespace
          /\ Len(ch_chunks[i]) <= ch_size
    /\ (ch_pc = "done" /\ IsBlank(ch_input)) => ch_chunks = <<>>

\* A finished run over a text with inner whitespace that returned at least
\* two chunks, one of them shorter than its window because it was trimmed.
C8_Witness ==
    /\ ch_pc = "done"
    /\ Len(ch_chunks) >= 2
    /\ ch_overlap < ch_size
    /\ \E i \in 1..Len(ch_text) : ch_text[i] \in Whitespace
    /\ \E i \in 1..Len(ch_chunks) : Len(ch_chunks[i]) < ch_size
    /\ \E i \in 1..Len(ch_input) : ch_input[i] = NUL

(***************************************************************************)
(* The chunk store: rag_store.py.  One document's file <doc_id>.json, one  *)
(* thread that calls upsert_doc_chunks and one that calls query_doc.       *)
(* The file's text is the JSON of {"doc_id", "chunks"}: its opening (up to *)
(* the "[" of the chunk list), the chunks in order, and its closing "]}".  *)
(***************************************************************************)
StoreChunks == {[text |-> <<"a">>, page |-> 1], [text |-> <<"b">>, page |-> 2]}

ChunkSets == UNION {[1..k -> StoreChunks] : k \in 0..MaxUpsertChunks}

\* The file right after open(path, "w"): no byte in it.
EmptyFile == [opening |-> FALSE, chunks |-> <<>>, closing |-> FALSE]

\* The first k pieces of json.dump's output for the chunk list data.
Written(data, k) ==
    [opening |-> k >= 1,
     chunks |-> SubSeq(data, 1, Min(Max(k - 1, 0), Len(data))),
     closing |-> k = Len(data) + 2]

\* What query_doc gets of a file's text: json.load raises on a text that is
\* not a whole JSON document, and "chunks" is read from a whole one.
Loaded(content) ==
    IF content.opening /\ content.closing
    THEN [kind |-> "ok", chunks |-> content.chunks]
    ELSE [kind |-> "error", chunks |-> <<>>]

NotFound == [kind |-> "notfound", chunks |-> <<>>]

\* Lines 44-51: what a query_doc sees that checks and reads the file at once.
Stored(exists, content) == IF exists THEN Loaded(content) ELSE NotFound

StoreInit ==
    /\ fs_exists = FALSE
    /\ fs_content = EmptyFile
    /\ w_pc = "idle"
    /\ w_arg = <<>>
    /\ w_pos = 0
    /\ w_last = <<>>
    /\ w_prev = NotFound
    /\ r_pc = "idle"
    /\ r_obs = NotFound
    /\ r_allowed = {NotFound}

\* Lines 21-24: upsert_doc_chunks is called; an empty list returns at once.
UpsertCall ==
    /\ w_pc = "idle"
    /\ \E data \in ChunkSets :
          /\ w_last' = data
          /\ IF data = <<>>
             THEN UNCHANGED <<w_pc, w_arg, w_prev>>
             ELSE /\ w_pc' = "open"
                  /\ w_arg' = data
                  /\ w_prev' = Stored(fs_exists, fs_content)
    /\ UNCHANGED <<fs_exists, fs_content, w_pos, r_pc, r_obs, r_allowed>>
    /\ UNCHANGED nonStoreVars

\* Line 25: open(path, "w") creates the file or truncates it.
UpsertOpen ==
    /\ w_pc = "open"
    /\ fs_exists' = TRUE
    /\ fs_content' = EmptyFile
    /\ w_pos' = 0
    /\ w_pc' = "write"
    /\ UNCHANGED <<w_arg, w_last, w_prev, r_pc, r_obs, r_allowed>>
    /\ UNCHANGED nonStoreVars

\* Line 26: json.dump writes piece by piece; the buffer may reach the file
\* before the document is whole.
UpsertFlush ==
    /\ w_pc = "write"
    /\ \E k \in (w_pos + 1)..(Len(w_arg) + 1) :
          /\ w_pos' = k
          /\ fs_content' = Written(w_arg, k)
    /\ UNCHANGED <<fs_exists, w_pc, w_arg, w_last, w_prev, r_pc, r_obs, r_allowed>>
    /\ UNCHANGED nonStoreVars

\* Lines 25-26: leaving the with block flushes the rest and closes.
UpsertClose ==
    /\ w_pc = "write"
    /\ w_pos' = Len(w_arg) + 2
    /\ fs_content' = Written(w_arg, Len(w_arg) + 2)
    /\ w_pc' = "idle"
    /\ UNCHANGED <<fs_exists, w_arg, w_last, w_prev, r_pc, r_obs, r_allowed>>
    /\ UNCHANGED nonStoreVars

\* The complete chunk sets a read may return now: the one stored before the
\* running upsert began and the one it is writing.
CompleteSets ==
    IF w_pc = "idle"
    THEN {Stored(fs_exists, fs_content)}
    ELSE {w_prev, [kind |-> "ok", chunks |-> w_arg]}

\* Lines 44-46: query_doc finds no file and returns the empty result.
QueryExists ==
    /\ r_pc = "idle"
    /\ IF fs_exists
       THEN /\ r_pc' = "exists"
            /\ UNCHANGED <<r_obs, r_allowed>>
       ELSE /\ r_pc' = "loaded"
            /\ r_obs' = NotFound
            /\ r_allowed' = CompleteSets
    /\ UNCHANGED <<fs_exists, fs_content, w_pc, w_arg, w_pos, w_last, w_prev>>
    /\ UNCHANGED nonStoreVars

\* Lines 48-51: open, json.load, data.get("chunks").
QueryLoad ==
    /\ r_pc = "exists"
    /\ r_obs' = Loaded(fs_content)
    /\ r_allowed' = CompleteSets
    /\ r_pc' = "loaded"
    /\ UNCHANGED <<fs_exists, fs_content, w_pc, w_arg, w_pos, w_last, w_prev>>
    /\ UNCHANGED nonStoreVars

\* query_doc returns (or raises json.JSONDecodeError).
QueryReturn ==
    /\ r_pc = "loaded"
    /\ r_pc' = "idle"
    /\ UNCHANGED <<fs_exists, fs_content, w_pc, w_arg, w_pos, w_last, w_prev,
                   r_obs, r_allowed>>
    /\ UNCHANGED nonStoreVars

StoreNext ==
    \/ UpsertCall
    \/ UpsertOpen
    \/ UpsertFlush
    \/ UpsertClose
    \/ QueryExists
    \/ QueryLoad
    \/ QueryReturn

\* Neither upsert_doc_chunks nor query_doc runs against the file.
StoreIdle == StoreInit

(***************************************************************************)
(* Claims about the chunk store.                                           *)
(***************************************************************************)

\* C3: a query_doc that runs while upsert_doc_chunks replaces the same
\* document reads the complete old set or the complete new set (or finds no
\* document before the first write), never an empty or partly written one.
C3_ReaderSeesWholeSet ==
    r_pc = "loaded" => r_obs \in r_allowed

\* C10: last write wins: when no upsert is running, the chunk set a
\* query_doc reads is the list passed to the most recent upsert_doc_chunks,
\* whole and in order, also when that list was empty.
C10_LastWriteWins ==
    w_pc = "idle" => Stored(fs_exists, fs_content).chunks = w_last

(***************************************************************************)
(* Characters and regular expressions.                                     *)
(***************************************************************************)
UpperLetters ==
    <<"A", "B", "C", "D", "E", "F", "G", "H", "I", "J", "K", "L", "M",
      "N", "O", "P", "Q", "R", "S", "T", "U", "V", "W", "X", "Y", "Z">>

LowerLetters ==
    <<"a", "b", "c", "d", "e", "f", "g", "h", "i", "j", "k", "l", "m",
      "n", "o", "p", "q", "r", "s", "t", "u", "v", "w", "x", "y", "z">>

Range(f) == {f[i] : i \in DOMAIN f}

Letters == Range(UpperLetters) \cup Range(LowerLetters)

Digits == {"0", "1", "2", "3", "4", "5", "6", "7", "8", "9"}

\* [a-zA-Z0-9_]
WordChars == Letters \cup Digits \cup {"_"}

UpperSet == Range(UpperLetters)

LowerChar(c) ==
    IF c \in UpperSet
    THEN LowerLetters[CHOOSE i \in DOMAIN UpperLetters : UpperLetters[i] = c]
    ELSE c

\* str.lower()
Lower(s) == AsString([i \in 1..Len(s) |-> LowerChar(s[i])])

\* The elements of a finite set of integers in ascending order.
RECURSIVE Ascending(_)
Ascending(S) ==
    IF S = {} THEN <<>>
    ELSE LET m == CHOOSE x \in S : \A y \in S : x <= y
         IN  <<m>> \o Ascending(S \ {m})

\* The last index of the maximal run of cls characters that holds index i.
RunEnd(s, cls, i) ==
    CHOOSE j \in i..Len(s) :
        /\ \A k \in i..j : s[k] \in cls
        /\ j = Len(s) \/ s[j + 1] \notin cls

\* re.findall("[cls]+", s): the maximal runs of cls characters, left to right.
Runs(s, cls) ==
    LET starts == Ascending({i \in 1..Len(s) :
                                /\ s[i] \in cls
                                /\ i = 1 \/ s[i - 1] \notin cls})
    IN  [k \in 1..Len(starts) |-> SubSeq(s, starts[k], RunEnd(s, cls, starts[k]))]

\* sub in s, for Python strings.
Contains(s, sub) ==
    \E i \in 1..(Len(s) - Len(sub) + 1) : SubSeq(s, i, i + Len(sub) - 1) = sub

(***************************************************************************)
(* Scores.  A float is a whole number of millionths; the quotients are     *)
(* cut, not rounded.                                                       *)
(***************************************************************************)
Micro == 1000000

\* math.log(k) for k = 1..10, in millionths.
LnMicro ==
    <<0, 693147, 1098612, 1386294, 1609438, 1791759, 1945910, 2079442,
      2197225, 2302585>>

\* The whole part of num * 100^pairs / den, by long division.
RECURSIVE FixDiv(_, _, _)
FixDiv(num, den, pairs) ==
    IF pairs = 0 THEN num \div den
    ELSE (num \div den) * (100 ^ pairs) + FixDiv((num % den) * 100, den, pairs - 1)

\* Line 72: overlap / max(1.0, math.log(len(tokens) + 2))
Score(overlap, ntokens) ==
    FixDiv(overlap * Micro, Max(Micro, LnMicro[ntokens + 2]), 3)

\* Line 85: 1.0 / (s + 1e-6)
Distance(score) == FixDiv(Micro, score + 1, 3)

(***************************************************************************)
(* query_doc(doc_id, question, top_k): rag_store.py, on a file that holds  *)
(* the whole chunk list stored.  Then build_context: rag_answer.py.        *)
(***************************************************************************)
\* Line 31: re.findall(r"[a-zA-Z0-9_]+", (text or "").lower())
Tokenize(text) == Runs(Lower(text), WordChars)

\* Line 67: sum(1 for t in tokens if t in q_set)
Overlap(tokens, q_set) == Cardinality({i \in 1..Len(tokens) : tokens[i] \in q_set})

\* Lines 58-73: the (score, chunk) pairs of the chunks that score.
RECURSIVE Scored(_, _)
Scored(chunks, q_set) ==
    IF chunks = <<>> THEN <<>>
    ELSE LET ch == Head(chunks)
             txt == Strip(ch.text)
             tokens == Tokenize(txt)
             overlap == Overlap(tokens, q_set)
             rest == Scored(Tail(chunks), q_set)
         IN  IF txt = <<>> \/ tokens = <<>> \/ overlap = 0
             THEN rest
             ELSE <<[score |-> Score(overlap, Len(tokens)), ch |-> ch]>> \o rest

\* list.sort with a key: ascending, equal keys in their order of arrival.
StableSort(seq, key) ==
    LET n == Len(seq)
        rank(i) == 1 + Cardinality({j \in 1..n :
                          \/ key[j] < key[i]
                          \/ key[j] = key[i] /\ j < i})
    IN  [p \in 1..n |-> seq[CHOOSE i \in 1..n : rank(i) = p]]

\* A sort that leaves the list as it is.
SortScoredNot(scored) == scored

\* Line 75: scored.sort(key=lambda x: x[0], reverse=True)
SortScored(scored) ==
    StableSort(scored, [i \in 1..Len(scored) |-> 0 - scored[i].score])

EmptyResult == [documents |-> <<>>, metadatas |-> <<>>, distances |-> <<>>]

\* Lines 51-87, after the file is read.
QueryDoc(chunks, question, top_k) ==
    LET q_tokens == Tokenize(question)
        scored == SortScored(Scored(chunks, Range(q_tokens)))
        top == SubSeq(scored, 1, Min(top_k, Len(scored)))
    IN  IF q_tokens = <<>> THEN EmptyResult
        ELSE [documents |-> [i \in 1..Len(top) |-> top[i].ch.text],
              metadatas |-> [i \in 1..Len(top) |-> [page |-> top[i].ch.page]],
              distances |-> [i \in 1..Len(top) |-> Distance(scored[i].score)]]

\* rag_answer.py lines 19-33: zip the three lists, sort by distance.
BuildContext(results) ==
    LET n == Min(Len(results.documents),
                 Min(Len(results.metadatas), Len(results.distances)))
        items == [i \in 1..n |-> [text |-> results.documents[i],
                                  page |-> results.metadatas[i].page,
                                  distance |-> results.distances[i]]]
    IN  StableSort(items, [i \in 1..n |-> items[i].distance])

Txt_a == <<"a">>

Txt_aaa == <<"a", " ", "a", " ", "a">>

Txt_abc == <<"a", " ", "b", " ", "c">>

Txt_bc == <<"b", " ", "c">>

Txt_Ab == <<" ", "A", "-", "b", "\n">>

Txt_blank == <<" ">>

Txt_mark == <<"?">>

QueryTexts == {Txt_a, Txt_aaa, Txt_abc, Txt_bc, Txt_Ab, Txt_blank, Txt_mark}

Questions ==
    {<<"a", " ", "b">>, <<"B", "?">>, <<"a", " ", "a">>, <<"?">>,
     <<"c", ",", "a", " ", "b">>}

\* The stored chunk lists: chunk i is on page i.
StoredLists ==
    UNION {{[i \in 1..k |-> [text |-> t[i], page |-> i]] : t \in [1..k -> QueryTexts]} :
           k \in 0..MaxStored}

QueryInit ==
    /\ q_stored \in StoredLists
    /\ q_question \in Questions
    /\ q_topk \in 0..MaxStored
    /\ q_result = EmptyResult
    /\ q_items = <<>>
    /\ q_pc = "ask"

\* views.py line 99: results = query_doc(...)
Query ==
    /\ q_pc = "ask"
    /\ q_result' = QueryDoc(q_stored, q_question, q_topk)
    /\ q_pc' = "queried"
    /\ UNCHANGED <<q_stored, q_question, q_topk, q_items>>
    /\ UNCHANGED nonQueryVars

\* views.py line 101: items = build_context(results)
Build ==
    /\ q_pc = "queried"
    /\ q_items' = BuildContext(q_result)
    /\ q_pc' = "built"
    /\ UNCHANGED <<q_stored, q_question, q_topk, q_result>>
    /\ UNCHANGED nonQueryVars

QueryNext == Query \/ Build

\* No query runs.
QueryIdle ==
    /\ q_stored = <<>>
    /\ q_question = <<>>
    /\ q_topk = 0
    /\ q_result = EmptyResult
    /\ q_items = <<>>
    /\ q_pc = "idle"

(***************************************************************************)
(* Claims about query_doc and build_context.                               *)
(***************************************************************************)
\* The number of distinct question tokens that occur in a chunk's tokens.
DistinctOverlap(text, question) ==
    Cardinality(Range(Tokenize(question)) \cap Range(Tokenize(Strip(text))))

TokenCount(text) == Len(Tokenize(Strip(text)))

\* The score of stored chunk p as query_doc computes it.
StoredScore(p) ==
    Score(Overlap(Tokenize(Strip(q_stored[p].text)), Range(Tokenize(q_question))),
          TokenCount(q_stored[p].text))

\* The position of stored chunk p (its page) in the result, 0 if it is not in it.
Position(p) ==
    IF \E i \in 1..Len(q_result.metadatas) : q_result.metadatas[i].page = p
    THEN CHOOSE i \in 1..Len(q_result.metadatas) : q_result.metadatas[i].page = p
    ELSE 0

\* C6: the overlap of a chunk is the number of distinct question tokens that
\* occur in it, and its score is overlap / log(token count + 2): every
\* candidate's distance is 1 / (that score + 1e-6).
C6_OverlapCountsDistinctTokens ==
    q_pc = "queried" =>
        \A i \in 1..Len(q_result.distances) :
            LET text == q_stored[q_result.metadatas[i].page].text
            IN  q_result.distances[i] =
                    Distance(FixDiv(DistinctOverlap(text, q_question) * Micro,
                                    LnMicro[TokenCount(text) + 2], 3))

\* C7: of two stored chunks with the same token count, the one with strictly
\* more distinct question tokens is never ranked below the other: if the
\* other is returned, it is returned earlier, with a distance not greater.
C7_MoreDistinctTokensRankFirst ==
    q_pc = "queried" =>
        \A a, b \in 1..Len(q_stored) :
            (/\ TokenCount(q_stored[a].text) = TokenCount(q_stored[b].text)
             /\ DistinctOverlap(q_stored[a].text, q_question)
                    > DistinctOverlap(q_stored[b].text, q_question)
             /\ Position(b) > 0)
            => /\ Position(a) > 0
               /\ Position(a) < Position(b)
               /\ q_result.distances[Position(a)] <= q_result.distances[Position(b)]

\* C9: the candidates, as query_doc returns them and as build_context orders
\* them, are at most top_k, sorted by descending score (non-decreasing
\* distance) with equal scores in stored order, and each carries the text,
\* the page and 1 / (score + 1e-6) of one and the same stored chunk.
C9_RankedAndAligned ==
    /\ q_pc \in {"queried", "built"} =>
          /\ Len(q_result.documents) <= q_topk
          /\ Len(q_result.metadatas) = Len(q_result.documents)
          /\ Len(q_result.distances) = Len(q_result.documents)
          /\ \A i \in 1..Len(q_result.documents) :
                LET p == q_result.metadatas[i].page
                IN  /\ q_result.documents[i] = q_stored[p].text
                    /\ q_result.distances[i] = Distance(StoredScore(p))
          /\ \A i, j \in 1..Len(q_result.documents) :
                i < j =>
                    LET pi == q_result.metadatas[i].page
                        pj == q_result.metadatas[j].page
                    IN  \/ StoredScore(pi) > StoredScore(pj)
                        \/ StoredScore(pi) = StoredScore(pj) /\ pi < pj
    /\ q_pc = "built" =>
          /\ Len(q_items) = Len(q_result.documents)
          /\ \A i \in 1..Len(q_items) :
                /\ q_items[i].text = q_stored[q_items[i].page].text
                /\ q_items[i].distance = Distance(StoredScore(q_items[i].page))
          /\ \A i, j \in 1..Len(q_items) :
                i < j =>
                    /\ q_items[i].distance <= q_items[j].distance
                    /\ \/ StoredScore(q_items[i].page) > StoredScore(q_items[j].page)
                       \/ /\ StoredScore(q_items[i].page) = StoredScore(q_items[j].page)
                          /\ q_items[i].page < q_items[j].page

\* Three stored chunks score, the lowest is stored first, two are returned
\* with equal scores, and top_k cuts the third.
C9_Witness ==
    /\ q_pc = "built"
    /\ q_topk = 2
    /\ Len(q_items) = 2
    /\ Len(Scored(q_stored, Range(Tokenize(q_question)))) = 3
    /\ q_items[1].page = 2
    /\ q_items[2].page = 3
    /\ q_items[1].distance = q_items[2].distance
    /\ q_items[1].text # q_items[2].text

(***************************************************************************)
(* The context assembler: rag_answer.py, _important_tokens, _make_context. *)
(***************************************************************************)
\* meta.get("page") of a chunk with no page: None.
NonePage == 0 - 1

BaselineCount == 4
SelectionCap == 7
MaxImportant == 12

\* Line 40: [A-Za-z_]
IdentStart == Letters \cup {"_"}

\* Line 40: [A-Za-z0-9_.-]
IdentChars == WordChars \cup {".", "-"}

\* Line 40: re.findall(r"[A-Za-z_][A-Za-z0-9_.-]+", q).  A match lies in one
\* maximal run of IdentChars, starts at the run's first IdentStart character
\* that is not the run's last character, and takes the rest of the run.
IdentTokens(s) ==
    LET starts == Ascending({i \in 1..Len(s) :
                                /\ s[i] \in IdentStart
                                /\ i < Len(s)
                                /\ s[i + 1] \in IdentChars
                                /\ \A k \in 1..(i - 1) :
                                      (\A m \in k..i : s[m] \in IdentChars)
                                      => ~(s[k] \in IdentStart)})
    IN  [k \in 1..Len(starts) |->
            SubSeq(s, starts[k], RunEnd(s, IdentChars, starts[k]))]

StopWords ==
    {<<"w", "h", "a", "t">>, <<"i", "s">>, <<"t", "h", "e">>, <<"a">>,
     <<"a", "n">>, <<"o", "f">>, <<"a", "b", "o", "u", "t">>,
     <<"d", "o", "e", "s">>, <<"d", "o">>, <<"i", "n">>, <<"o", "n">>,
     <<"t", "o">>, <<"a", "n", "d">>, <<"h", "o", "w">>,
     <<"m", "a", "n", "y">>, <<"p", "a", "g", "e", "s">>,
     <<"p", "d", "f">>, <<"h", "a", "v", "e">>, <<"h", "a", "s">>,
     <<"t", "e", "l", "l">>, <<"m", "e">>,
     <<"e", "x", "p", "l", "a", "i", "n">>,
     <<"d", "e", "f", "i", "n", "e">>, <<"w", "h", "e", "r", "e">>,
     <<"c", "o", "n", "f", "i", "g", "u", "r", "e", "d">>,
     <<"w", "h", "i", "c", "h">>, <<"f", "i", "l", "e">>,
     <<"t", "h", "i", "s">>, <<"t", "h", "a", "t">>}

\* Lines 43-49: the lowercase words longer than 2 that are no stop words.
ExtraTokens(q) ==
    LET Kept(w) == w \notin StopWords /\ Len(w) > 2
    IN  SelectSeq(Runs(Lower(q), Letters), Kept)

\* list(dict.fromkeys(seq)): the first occurrence of every element, in order.
Unique(seq) ==
    LET firsts == Ascending({i \in 1..Len(seq) : \A j \in 1..(i - 1) : seq[j] # seq[i]})
    IN  [k \in 1..Len(firsts) |-> seq[firsts[k]]]

\* Lines 36-52
ImportantTokens(question) ==
    LET q == Strip(question)
        all == Unique(IdentTokens(q) \o ExtraTokens(q))
    IN  SubSeq(all, 1, Min(MaxImportant, Len(all)))

\* Line 75: any(tok.lower() in t_low for tok in tokens)
KeywordHit(it, tokens) ==
    \E k \in 1..Len(tokens) : Contains(Lower(it.text), Lower(tokens[k]))

\* Lines 71-79: the scan from item i on (1-based), given the selection so far.
RECURSIVE KeywordPass(_, _, _, _)
KeywordPass(items, i, tokens, selected) ==
    IF i > Len(items) THEN selected
    ELSE IF i <= BaselineCount \/ ~KeywordHit(items[i], tokens)
         THEN KeywordPass(items, i + 1, tokens, selected)
         ELSE IF Len(selected) + 1 >= SelectionCap
              THEN Append(selected, items[i])
              ELSE KeywordPass(items, i + 1, tokens, Append(selected, items[i]))

\* Lines 61-79
Selected(items, tokens) ==
    LET baseline == SubSeq(items, 1, Min(BaselineCount, Len(items)))
    IN  IF tokens = <<>> THEN baseline ELSE KeywordPass(items, 1, tokens, baseline)

DigitChars == <<"0", "1", "2", "3", "4", "5", "6", "7", "8", "9">>

\* str(n) for n >= 0
RECURSIVE Decimal(_)
Decimal(n) ==
    IF n < 10 THEN <<DigitChars[n + 1]>>
    ELSE Decimal(n \div 10) \o Decimal(n % 10)

PageText(page) == IF page = NonePage THEN <<"N", "o", "n", "e">> ELSE Decimal(page)

\* Line 89: f"[Page {page}]\n{txt}\n"
Block(page, txt) ==
    <<"[", "P", "a", "g", "e", " ">> \o PageText(page) \o <<"]", "\n">> \o txt \o <<"\n">>

\* Lines 82-93: the blocks accepted, given those accepted so far.
RECURSIVE Pack(_, _, _, _)
Pack(selected, blocks, total, max_chars) ==
    IF selected = <<>> THEN blocks
    ELSE LET it == Head(selected)
             txt == Strip(it.text)
             block == Block(it.page, txt)
         IN  IF txt = <<>> THEN Pack(Tail(selected), blocks, total, max_chars)
             ELSE IF total + Len(block) > max_chars THEN blocks
             ELSE Pack(Tail(selected), Append(blocks, block),
                       total + Len(block), max_chars)

\* "\n---\n".join(blocks)
RECURSIVE Join(_)
Join(blocks) ==
    IF blocks = <<>> THEN <<>>
    ELSE IF Len(blocks) = 1 THEN blocks[1]
    ELSE blocks[1] \o <<"\n", "-", "-", "-", "\n">> \o Join(Tail(blocks))

\* Lines 55-95
MakeContext(items, question, max_chars) ==
    Strip(Join(Pack(Selected(items, ImportantTokens(question)), <<>>, 0, max_chars)))

(***************************************************************************)
(* _make_context applied to bounded inputs.                                *)
(***************************************************************************)
Txt_ab == <<"a", "b">>

Txt_xyz == <<" ", "x", " ", "y", "\n">>

\* The texts and pages of the candidates; a candidate's distance is its rank.
ContextKinds ==
    {[text |-> Txt_ab, page |-> 1], [text |-> Txt_blank, page |-> 2],
     [text |-> Txt_xyz, page |-> 12]}

Ranked(kinds) ==
    [i \in DOMAIN kinds |->
        [text |-> kinds[i].text, page |-> kinds[i].page, distance |-> i]]

ContextQuestions == {<<"a", "b", "?">>, <<"i", "s", " ", "a">>, <<"Y", "-", "x", " ", "a", "b">>}

ContextInit ==
    /\ m_items \in {Ranked(k) : k \in UNION {[1..n -> ContextKinds] : n \in 0..MaxItems}}
    /\ m_question \in ContextQuestions
    /\ m_max \in 0..MaxBudget
    /\ m_context = <<>>
    /\ m_pc = "call"

Assemble ==
    /\ m_pc = "call"
    /\ m_context' = MakeContext(m_items, m_question, m_max)
    /\ m_pc' = "done"
    /\ UNCHANGED <<m_items, m_question, m_max>>
    /\ UNCHANGED nonContextVars

ContextNext == Assemble

\* _make_context is not called on its own.
ContextIdle ==
    /\ m_items = <<>>
    /\ m_question = <<>>
    /\ m_max = 0
    /\ m_context = <<>>
    /\ m_pc = "idle"

\* C1: the string _make_context returns is never longer than max_chars,
\* the separator lines between the accepted blocks counted.
C1_ContextWithinBudget ==
    m_pc = "done" => Len(m_context) <= m_max

(***************************************************************************)
(* answer_from_context(question, items): rag_answer.py.                    *)
(***************************************************************************)
SourceCount == 3
SnippetLen == 250
SummaryItems == 5
SummaryMaxChars == 900
QaMaxChars == 1400

Fallback ==
    <<"I", " ", "c", "o", "u", "l", "d", "n", "'", "t", " ", "f", "i", "n",
      "d", " ", "t", "h", "a", "t", " ", "i", "n", " ", "t", "h", "e", " ",
      "P", "D", "F", ".">>

SummaryPhrases ==
    {<<"s", "u", "m", "m", "a", "r", "i", "z", "e">>,
     <<"s", "u", "m", "m", "a", "r", "y">>,
     <<"w", "h", "a", "t", " ", "i", "s", " ", "t", "h", "i", "s", " ", "p", "d", "f", " ", "a", "b", "o", "u", "t">>,
     <<"w", "h", "a", "t", " ", "i", "s", " ", "t", "h", "e", " ", "p", "d", "f", " ", "a", "b", "o", "u", "t">>}

\* str.replace("\n", " ")
ReplaceNewline(s) == AsString([i \in 1..Len(s) |-> IF s[i] = "\n" THEN " " ELSE s[i]])

\* Lines 98-108
RECURSIVE SourcesOf(_)
SourcesOf(items) ==
    IF items = <<>> THEN <<>>
    ELSE LET it == Head(items)
             txt == Strip(it.text)
             snippet == Strip(ReplaceNewline(SubSeq(txt, 1, Min(SnippetLen, Len(txt)))))
         IN  (IF txt = <<>> THEN <<>> ELSE <<[page |-> it.page, snippet |-> snippet]>>)
             \o SourcesOf(Tail(items))

Sources(items, n) == SourcesOf(SubSeq(items, 1, Min(n, Len(items))))

\* Lines 137-139
IsSummary(qlow) == \E p \in SummaryPhrases : Contains(qlow, p)

\* Lines 141-160: the context of the mode the question selects.
ContextFor(question, items) ==
    LET q == Strip(question)
    IN  IF IsSummary(Lower(q))
        THEN MakeContext(SubSeq(items, 1, Min(SummaryItems, Len(items))), q,
                         SummaryMaxChars)
        ELSE MakeContext(items, q, QaMaxChars)

\* A guard that lets an empty context through.
NeverInsufficient(context) == FALSE

\* Line 178: if not context
Insufficient(context) == context = <<>>

\* What client.chat may do: raise (a transport error, a timeout, an error
\* response), return a response without a message, or return one with content.
ChatOutcomes ==
    {[kind |-> "raise", content |-> <<>>], [kind |-> "nomessage", content |-> <<>>]}
    \cup {[kind |-> "content", content |-> c] :
            c \in {<<>>, <<" ", "\n">>, <<"o", "k">>, <<" ", "o", "k", "\n">>}}

NoOutcome == [kind |-> "none", content |-> <<>>]

\* An answer_from_context whose try has no except.
AfterChatUncaught(outcome, sources) ==
    IF outcome.kind = "raise"
    THEN [answer |-> <<>>, sources |-> <<>>, raised |-> TRUE]
    ELSE LET answer == Strip(outcome.content)
         IN  [answer |-> IF answer = <<>> THEN Fallback ELSE answer,
              sources |-> sources, raised |-> FALSE]

\* Lines 181-201: the try block after client.chat returned or raised.
AfterChat(outcome, sources) ==
    IF outcome.kind = "raise"
    THEN [answer |-> Fallback, sources |-> sources, raised |-> FALSE]
    ELSE LET answer == Strip(outcome.content)
         IN  [answer |-> IF answer = <<>> THEN Fallback ELSE answer,
              sources |-> sources, raised |-> FALSE]

Txt_abcd == <<"a", "b", " ", "c", "d", "\n", "e", " ">>

\* A text whose block alone is larger than either budget.
Txt_long == AsString([i \in 1..QaMaxChars |-> "x"])

AnswerKinds ==
    {[text |-> Txt_abcd, page |-> 1], [text |-> Txt_blank, page |-> 2],
     [text |-> Txt_long, page |-> NonePage]}

AnswerQuestions == {<<"S", "u", "m", "m", "a", "r", "i", "z", "e", " ", "t", "h", "i", "s">>,
     <<"w", "h", "a", "t", " ", "i", "s", " ", "a", "b">>,
     <<"A", "B", "-", "c", "d", " ", "e", "?">>}

AnswerInit ==
    /\ a_items \in {Ranked(k) : k \in UNION {[1..n -> AnswerKinds] : n \in 0..MaxCandidates}}
    /\ a_question \in AnswerQuestions
    /\ a_context = <<>>
    /\ a_sources = <<>>
    /\ a_answer = <<>>
    /\ a_chats = 0
    /\ a_outcome = NoOutcome
    /\ a_raised = FALSE
    /\ a_pc = "call"

\* Lines 120-189: up to the return of the fallback or the call of client.chat.
AnswerEnter ==
    /\ a_pc = "call"
    /\ IF a_items = <<>>
       THEN /\ a_answer' = Fallback
            /\ a_sources' = <<>>
            /\ a_pc' = "returned"
            /\ UNCHANGED <<a_context, a_chats>>
       ELSE /\ a_sources' = Sources(a_items, SourceCount)
            /\ a_context' = ContextFor(a_question, a_items)
            /\ IF Insufficient(a_context')
               THEN /\ a_answer' = Fallback
                    /\ a_pc' = "returned"
                    /\ UNCHANGED a_chats
               ELSE /\ a_chats' = a_chats + 1
                    /\ a_pc' = "chat"
                    /\ UNCHANGED a_answer
    /\ UNCHANGED <<a_items, a_question, a_outcome, a_raised>>
    /\ UNCHANGED nonAnswerVars

\* Lines 182-201: client.chat ends and the function returns.
AnswerChatEnds ==
    /\ a_pc = "chat"
    /\ \E outcome \in ChatOutcomes :
          LET r == AfterChat(outcome, a_sources)
          IN  /\ a_outcome' = outcome
              /\ a_answer' = r.answer
              /\ a_sources' = r.sources
              /\ a_raised' = r.raised
    /\ a_pc' = "returned"
    /\ UNCHANGED <<a_items, a_question, a_context, a_chats>>
    /\ UNCHANGED nonAnswerVars

AnswerNext == AnswerEnter \/ AnswerChatEnds

\* answer_from_context is not running.
AnswerIdle ==
    /\ a_items = <<>>
    /\ a_question = <<>>
    /\ a_context = <<>>
    /\ a_sources = <<>>
    /\ a_answer = <<>>
    /\ a_chats = 0
    /\ a_outcome = NoOutcome
    /\ a_raised = FALSE
    /\ a_pc = "idle"

(***************************************************************************)
(* Claims about answer_from_context.                                       *)
(***************************************************************************)

\* C4: with no candidates, or with an empty assembled context (in summarize
\* and in Q&A mode), answer_from_context returns exactly the fallback
\* sentence and never invokes client.chat; with no candidates the citations
\* are empty too.
C4_EmptyContextFallsBack ==
    (a_pc \in {"chat", "returned"} /\ (a_items = <<>> \/ a_context = <<>>))
    => /\ a_pc = "returned"
       /\ a_answer = Fallback
       /\ a_chats = 0
       /\ a_outcome = NoOutcome
       /\ a_items = <<>> => a_sources = <<>>

\* A summarize request whose only non-blank candidate is too long for the
\* budget: the context is empty, the citations are not.
C4_Witness ==
    /\ a_pc = "returned"
    /\ IsSummary(Lower(a_question))
    /\ a_items # <<>>
    /\ a_context = <<>>
    /\ a_sources # <<>>
    /\ a_chats = 0

\* The citations of the top candidates: those of the first three with a
\* non-blank text, each with its page and a one-line snippet.
Citations == Sources(a_items, SourceCount)

\* C5: with candidates, if client.chat raises or returns empty or
\* whitespace-only text, answer_from_context returns the fallback sentence
\* with the citations computed from the top candidates, and nothing is raised.
C5_GeneratorFailureFallsBack ==
    (/\ a_pc = "returned"
     /\ a_items # <<>>
     /\ \/ a_outcome.kind \in {"raise", "nomessage"}
        \/ a_outcome.kind = "content" /\ IsBlank(a_outcome.content))
    => /\ a_answer = Fallback
       /\ a_sources = Citations
       /\ ~a_raised

\* client.chat was invoked and raised; the fallback comes with citations.
C5_Witness ==
    /\ a_pc = "returned"
    /\ a_chats = 1
    /\ a_outcome.kind = "raise"
    /\ a_answer = Fallback
    /\ Len(a_sources) >= 2
    /\ ~a_raised

(***************************************************************************)
(* Specifications.                                                         *)
(***************************************************************************)
InitChunk == ChunkInit /\ StoreIdle /\ QueryIdle /\ ContextIdle /\ AnswerIdle

InitStore == StoreInit /\ ChunkIdle /\ QueryIdle /\ ContextIdle /\ AnswerIdle

InitQuery == QueryInit /\ ChunkIdle /\ StoreIdle /\ ContextIdle /\ AnswerIdle

InitContext == ContextInit /\ ChunkIdle /\ StoreIdle /\ QueryIdle /\ AnswerIdle

InitAnswer == AnswerInit /\ ChunkIdle /\ StoreIdle /\ QueryIdle /\ ContextIdle

SpecChunk == InitChunk /\ [][ChunkNext]_vars

SpecStore == InitStore /\ [][StoreNext]_vars

SpecQuery == InitQuery /\ [][QueryNext]_vars

SpecContext == InitContext /\ [][ContextNext]_vars

SpecAnswer == InitAnswer /\ [][AnswerNext]_vars
====
